---- MODULE Spec2Model ----
(***************************************************************************)
(* Model of CRD_SCRAPER/kmt_scraper.py: the reaction-SMILES splitter       *)
(* (KMTScraper._parse_smiles_string), the page processor, the pagination   *)
(* planner (_find_next_page_url) and the scrape loop.                      *)
(*                                                                         *)
(* A Python str is modelled as a sequence of one-character strings, so     *)
(* that split, strip, startswith, the regular expression /start/(\d+) and  *)
(* the decimal formatting of _build_url are computed character by          *)
(* character.  A fetched document is modelled by what BeautifulSoup and    *)
(* re.findall hand to the extractors: the values of the                    *)
(* data-reaction-smiles attributes, the captured groups of the script      *)
(* patterns, the stripped texts of the table cells and the anchors (text,  *)
(* href) in document order.                                                *)
(***************************************************************************)
EXTENDS Integers, Sequences, FiniteSets, TLC

VARIABLES
    doi,                  \* self.doi
    max_pages,            \* argument of scrape
    collected_reactions,  \* self.collected_reactions
    current_url,          \* local of scrape
    pages_scraped,        \* local of scrape
    seen_urls,            \* local of scrape
    html,                 \* local of scrape: result of the last _fetch_page
    pc,                   \* position inside scrape
    stop,                 \* history: which exit ended the loop
    calls,                \* history: session.get / time.sleep calls, in order
    plans,                \* history: calls of _find_next_page_url
    stored,               \* history: what each processed page did to the store
    raw,                  \* argument of _parse_smiles_string (splitter runs)
    parsed                \* its result (splitter runs)

vars == <<doi, max_pages, collected_reactions, current_url, pages_scraped,
          seen_urls, html, pc, stop, calls, plans, stored, raw, parsed>>

scrapeVars == <<doi, max_pages, collected_reactions, current_url,
                pages_scraped, seen_urls, html, pc, stop, calls, plans, stored>>

(***************************************************************************)
(* Bounds of the model.                                                    *)
(***************************************************************************)
MaxPagesBound == 4   \* max_pages ranges over 0..MaxPagesBound
MaxLen == 5          \* longest raw string handed to the splitter on its own

(***************************************************************************)
(* Python values.                                                          *)
(***************************************************************************)
\* Python's None where a str is expected (no str has a long element).
None == <<"None">>

\* The splitter has not been called yet.
Unset == [unset |-> TRUE]

\* The value None returned by _parse_smiles_string instead of a dict.
NoneDict == [none |-> TRUE]

\* str.isspace characters that occur in the model.
Whitespace == {" ", "\t", "\n"}

\* Characters matched by \d that occur in the model.
Digits == <<"0", "1", "2", "3", "4", "5", "6", "7", "8", "9">>

IsDigit(c) == \E i \in 1..10 : Digits[i] = c

DigitValue(c) == (CHOOSE i \in 1..10 : Digits[i] = c) - 1

\* str.startswith(prefix)
StartsWith(s, prefix) ==
    /\ Len(s) >= Len(prefix)
    /\ SubSeq(s, 1, Len(prefix)) = prefix

\* Index of the first occurrence of sub in s at or after position i, or 0.
RECURSIVE FindFrom(_, _, _)
FindFrom(s, sub, i) ==
    IF i + Len(sub) - 1 > Len(s) THEN 0
    ELSE IF SubSeq(s, i, i + Len(sub) - 1) = sub THEN i
    ELSE FindFrom(s, sub, i + 1)

\* sub in s
Contains(s, sub) == FindFrom(s, sub, 1) # 0

\* str.split(sep): every non-overlapping occurrence, left to right, empty
\* pieces kept.
RECURSIVE Split(_, _)
Split(s, sep) ==
    LET i == FindFrom(s, sep, 1)
    IN  IF i = 0 THEN <<s>>
        ELSE <<SubSeq(s, 1, i - 1)>> \o Split(SubSeq(s, i + Len(sep), Len(s)), sep)

\* str.strip()
RECURSIVE LStrip(_)
LStrip(s) ==
    IF s # <<>> /\ Head(s) \in Whitespace THEN LStrip(Tail(s)) ELSE s

RECURSIVE RStrip(_)
RStrip(s) ==
    IF s # <<>> /\ s[Len(s)] \in Whitespace
    THEN RStrip(SubSeq(s, 1, Len(s) - 1)) ELSE s

Strip(s) == RStrip(LStrip(s))

\* [f(x) for x in xs if p(x)] for the one comprehension of the splitter:
\* [s.strip() for s in field.split(".") if s.strip()]
RECURSIVE StripNonEmpty(_)
StripNonEmpty(pieces) ==
    IF pieces = <<>> THEN <<>>
    ELSE IF Strip(Head(pieces)) # <<>>
         THEN <<Strip(Head(pieces))>> \o StripNonEmpty(Tail(pieces))
         ELSE StripNonEmpty(Tail(pieces))

Components(field) == StripNonEmpty(Split(field, <<".">>))

(***************************************************************************)
(* KMTScraper._parse_smiles_string                                         *)
(***************************************************************************)
\* Lines 64-72: the three role lists built from parts[0], parts[1], parts[2].
RoleLists(parts) ==
    [reactants |-> Components(parts[1]),
     reagents  |-> IF Len(parts) > 1 THEN Components(parts[2]) ELSE <<>>,
     products  |-> IF Len(parts) > 2 THEN Components(parts[3]) ELSE <<>>]

_parse_smiles_string(smiles) ==
    LET parts == Split(smiles, <<">">>)
    IN  IF Len(parts) < 3
        THEN LET parts2 == Split(smiles, <<">", ">">>)
             IN  IF Len(parts2) = 2
                 THEN RoleLists(<<parts2[1], <<>>, parts2[2]>>)
                 ELSE NoneDict
        ELSE RoleLists(parts)

(***************************************************************************)
(* URLs: KMTScraper.BASE_URL, _build_url and the regular expression of the *)
(* pagination fallback.                                                    *)
(***************************************************************************)
BASE_URL == <<"h", "t", "t", "p", "s", ":", "/", "/", "k", "m", "t", ".", "v", "a", "n", "d", "e", "r", "-", "l", "i", "n", "g", "e", "n", ".", "n", "l">>

\* str(n) for n >= 0, as the f-string of _build_url formats the offset.
RECURSIVE Str(_)
Str(n) ==
    IF n < 10 THEN <<Digits[n + 1]>>
    ELSE Str(n \div 10) \o <<Digits[(n % 10) + 1]>>

\* int(s) for a non-empty string of digits.
RECURSIVE ParseInt(_)
ParseInt(s) ==
    IF Len(s) = 1 THEN DigitValue(s[1])
    ELSE 10 * ParseInt(SubSeq(s, 1, Len(s) - 1)) + DigitValue(s[Len(s)])

_build_url(start) ==
    BASE_URL \o <<"/", "d", "a", "t", "a", "/", "r", "e", "a", "c", "t", "i", "o", "n", "/", "d", "o", "i", "/">> \o doi \o <<"/", "s", "t", "a", "r", "t", "/">> \o Str(start)

\* Last index of the run of digits of s that starts at position i.
RECURSIVE DigitsEnd(_, _)
DigitsEnd(s, i) ==
    IF i + 1 <= Len(s) /\ IsDigit(s[i + 1]) THEN DigitsEnd(s, i + 1) ELSE i

\* re.search(r"/start/(\d+)", s): group 1 of the leftmost match, or None.
RECURSIVE SearchStart(_, _)
SearchStart(s, from) ==
    LET i == FindFrom(s, <<"/", "s", "t", "a", "r", "t", "/">>, from)
    IN  IF i = 0 THEN None
        ELSE IF i + 7 <= Len(s) /\ IsDigit(s[i + 7])
             THEN SubSeq(s, i + 7, DigitsEnd(s, i + 7))
             ELSE SearchStart(s, i + 1)

(***************************************************************************)
(* Documents.  kind "none" is the None that _fetch_page returns on a       *)
(* RequestException, kind "empty" is an empty response body.               *)
(***************************************************************************)
Upper == <<"A", "B", "C", "D", "E", "F", "G", "H", "I", "J", "K", "L", "M",
           "N", "O", "P", "Q", "R", "S", "T", "U", "V", "W", "X", "Y", "Z">>

Lower == <<"a", "b", "c", "d", "e", "f", "g", "h", "i", "j", "k", "l", "m",
           "n", "o", "p", "q", "r", "s", "t", "u", "v", "w", "x", "y", "z">>

\* str.lower()
LowerChar(c) ==
    IF \E i \in 1..26 : Upper[i] = c
    THEN Lower[CHOOSE i \in 1..26 : Upper[i] = c]
    ELSE c

ToLower(s) == [i \in 1..Len(s) |-> LowerChar(s[i])]

\* "not html" in scrape
Falsy(h) == h.kind \in {"none", "empty"}

\* "if current_url" / "while current_url" in scrape
Truthy(url) == url # None /\ url # <<>>

(***************************************************************************)
(* The three extractors.                                                   *)
(***************************************************************************)
\* [x.strip() for x in values if x and x.strip()]
_extract_from_data_attributes(soup) == StripNonEmpty(soup.attrs)

\* The captured groups of the four patterns, kept when they contain ">".
_extract_from_javascript(h) ==
    SelectSeq(h.scripts, LAMBDA m : Contains(m, <<">">>))

\* The character class of the table-cell whitelist.
Whitelisted(c) ==
    \/ \E i \in 1..26 : Upper[i] = c \/ Lower[i] = c
    \/ IsDigit(c)
    \/ c \in {"[", "]", "(", ")", "=", "#", "@", "+", "-", "\\", "/", ".", ">"}

_extract_from_tables(soup) ==
    SelectSeq(soup.cells,
              LAMBDA text : /\ Contains(text, <<">">>)
                            /\ Contains(text, <<".">>)
                            /\ text # <<>>
                            /\ \A i \in 1..Len(text) : Whitelisted(text[i]))

Range(s) == {s[i] : i \in 1..Len(s)}

\* all_smiles of _process_page
AllSmiles(h) ==
    Range(_extract_from_data_attributes(h))
        \cup Range(_extract_from_javascript(h))
        \cup Range(_extract_from_tables(h))

(***************************************************************************)
(* KMTScraper._process_page                                                *)
(***************************************************************************)
\* Line 149: "if parsed and parsed["products"]"
Retained_AnySplit(p) == p # NoneDict

Retained(p) == p # NoneDict /\ p.products # <<>>

\* Lines 150-157.  scraped_at is the wall clock and is left out.
ReactionData(smiles, p, url) ==
    [reaction_smiles |-> smiles,
     reactant_smiles |-> p.reactants,
     reagent_smiles  |-> p.reagents,
     product_smiles  |-> p.products,
     source_url      |-> url]

\* The records of the returned list; their order is the iteration order of
\* the set all_smiles, which Python leaves open.
_process_page(h, url) ==
    {ReactionData(s, _parse_smiles_string(s), url) :
        s \in {c \in AllSmiles(h) : Retained(_parse_smiles_string(c))}}

\* Every order in which a set can be iterated.
Orderings(S) ==
    {f \in [1..Cardinality(S) -> S] :
        \A i, j \in 1..Cardinality(S) : f[i] = f[j] => i = j}

(***************************************************************************)
(* KMTScraper._find_next_page_url                                          *)
(***************************************************************************)
next_indicators ==
    <<<<"n", "e", "x", "t">>,
      <<"»">>,
      <<">">>,
      <<"→">>,
      <<"f", "o", "r", "w", "a", "r", "d">>>>

\* Line 120: any(indicator in link_text for indicator in next_indicators)
IsNextText(text) ==
    \E k \in 1..Len(next_indicators) : Contains(ToLower(text), next_indicators[k])

\* Lines 123-126
Resolve(href) ==
    IF StartsWith(href, <<"h", "t", "t", "p">>) THEN href
    ELSE IF StartsWith(href, <<"/">>) THEN BASE_URL \o href
    ELSE BASE_URL \o <<"/">> \o href

\* Lines 118-126: the first anchor with an href attribute whose text matches
\* and whose href is not empty, resolved; None when there is none.
RECURSIVE FirstNextLink(_)
FirstNextLink(links) ==
    IF links = <<>> THEN None
    ELSE IF /\ Head(links).href # None
            /\ IsNextText(Head(links).text)
            /\ Head(links).href # <<>>
         THEN Resolve(Head(links).href)
         ELSE FirstNextLink(Tail(links))

\* Line 131
PageSize == 10

NextStart_Step1(current_start) == current_start + 1

NextStart(current_start) == current_start + PageSize

\* Lines 128-134
OffsetFallback(current) ==
    LET m == SearchStart(current, 1)
    IN  IF m # None THEN _build_url(NextStart(ParseInt(m))) ELSE None

_find_next_page_url(soup, current) ==
    LET target == FirstNextLink(soup.links)
    IN  IF target # None THEN target ELSE OffsetFallback(current)

(***************************************************************************)
(* The documents the source may answer with.  Any URL may be answered by   *)
(* any of them, by a request error or by an empty body.                    *)
(***************************************************************************)
NoneHtml ==
    [kind |-> "none", attrs |-> <<>>, scripts |-> <<>>, cells |-> <<>>, links |-> <<>>]

EmptyHtml ==
    [kind |-> "empty", attrs |-> <<>>, scripts |-> <<>>, cells |-> <<>>, links |-> <<>>]

\* Three attribute values, which the attribute pattern of the script
\* extractor captures as well (unstripped), two reactions.push arguments (one
\* with an empty products field, one without arrow), a table cell repeating
\* the reaction, a cell with blanks, and an anchor without href.
DocReactions ==
    [kind    |-> "doc",
     attrs   |-> <<<<" ", "C", ".", "O", ">", ">", "C", "O", " ">>, <<"C", "O">>, <<" ">>>>,
     scripts |-> <<<<"C", ">", "O", ">">>, <<"C", "O">>, <<" ", "C", ".", "O", ">", ">", "C", "O", " ">>, <<"C", "O">>, <<" ">>>>,
     cells   |-> <<<<"C", ".", "O", ">", ">", "C", "O">>, <<"C", " ", ">", " ", "O", ".", "C">>>>,
     links   |-> <<[text |-> <<"n", "e", "x", "t">>, href |-> None]>>]

\* A reaction already shown by DocReactions (attribute, captured by the
\* attribute pattern too), a reactionSmiles assignment with a fourth field,
\* and a "next" anchor with a relative href after one with an empty href.
DocRelativeNext ==
    [kind    |-> "doc",
     attrs   |-> <<<<"C", ".", "O", ">", ">", "C", "O">>>>,
     scripts |-> <<<<"O", ">", "C", ">", "C", "O", ">", "C">>, <<"C", ".", "O", ">", ">", "C", "O">>>>,
     cells   |-> <<>>,
     links   |-> <<[text |-> <<"P", "r", "e", "v">>, href |-> <<"/", "p">>], [text |-> <<"N", "e", "x", "t", " ", "»">>, href |-> <<>>], [text |-> <<"N", "E", "X", "T">>, href |-> <<"s", "/", "s", "t", "a", "r", "t", "/", "3">>]>>]

\* No candidate; an arrow anchor with an absolute href.
DocAbsoluteNext ==
    [kind    |-> "doc",
     attrs   |-> <<>>,
     scripts |-> <<>>,
     cells   |-> <<>>,
     links   |-> <<[text |-> <<">">>, href |-> <<"h", "t", "t", "p", ":", "/", "/", "h", "/", "s", "t", "a", "r", "t", "/", "5">>]>>]

\* A table-cell reaction and an anchor to a URL without /start/N.
DocAbout ==
    [kind    |-> "doc",
     attrs   |-> <<>>,
     scripts |-> <<>>,
     cells   |-> <<<<"C", ".", "C", ">", "O", ">", "C", "O">>>>,
     links   |-> <<[text |-> <<"f", "o", "r", "w", "a", "r", "d">>, href |-> <<"/", "a", "b", "o", "u", "t">>]>>]

\* Neither candidates nor anchors.
DocBare ==
    [kind    |-> "doc",
     attrs   |-> <<>>,
     scripts |-> <<>>,
     cells   |-> <<>>,
     links   |-> <<>>]

Docs == {DocReactions, DocRelativeNext, DocAbsoluteNext, DocAbout, DocBare}

\* What _fetch_page can return.
FetchResults == Docs \cup {NoneHtml, EmptyHtml}

\* The DOIs of the model: the default of __init__ and one whose suffix holds
\* the text "/start/7".
DefaultDoi == <<"1", "0", ".", "1", "0", "2", "1", "/", "j", "a", "c", "s", "a", "u", ".", "4", "c", "0", "1", "2", "7", "6">>

StartDoi == <<"1", "0", ".", "1", "0", "2", "1", "/", "j", "a", "c", "s", "a", "u", ".", "4", "c", "0", "1", "2", "7", "6", "/", "s", "t", "a", "r", "t", "/", "7">>

Dois == {DefaultDoi, StartDoi}

(***************************************************************************)
(* KMTScraper.scrape                                                       *)
(***************************************************************************)
\* Line 171: the while condition.
LoopCond_OffByOne(url, n, limit) == Truthy(url) /\ n <= limit

LoopCond(url, n, limit) == Truthy(url) /\ n < limit

\* Line 172: the cycle guard.
AlreadyVisited_Never(url, seen) == FALSE

AlreadyVisited(url, seen) == url \in seen

\* Lines 180-184: where the loop body goes after _fetch_page.
AfterFetch_NoBreak(h) == "process"

AfterFetch(h) == IF Falsy(h) THEN "done" ELSE "process"

\* Lines 187-190: append the reactions whose reaction_smiles is not stored yet.
AppendNew_NoCheck(coll, reactions) == coll \o reactions

RECURSIVE AppendNew(_, _)
AppendNew(coll, reactions) ==
    IF reactions = <<>> THEN coll
    ELSE LET r == Head(reactions)
             known == {coll[i].reaction_smiles : i \in 1..Len(coll)}
         IN  AppendNew(IF r.reaction_smiles \notin known THEN Append(coll, r) ELSE coll,
                       Tail(reactions))

Init ==
    /\ doi \in Dois
    /\ max_pages \in 0..MaxPagesBound
    /\ collected_reactions = <<>>
    /\ current_url = None
    /\ pages_scraped = 0
    /\ seen_urls = {}
    /\ html = NoneHtml
    /\ pc = "start"
    /\ stop = ""
    /\ calls = <<>>
    /\ plans = <<>>
    /\ stored = <<>>
    /\ raw = <<>>
    /\ parsed = Unset

\* Lines 163-169
Begin ==
    /\ pc = "start"
    /\ current_url' = _build_url(0)
    /\ pages_scraped' = 0
    /\ seen_urls' = {}
    /\ pc' = "loop"
    /\ UNCHANGED <<doi, max_pages, collected_reactions, html, stop, calls,
                   plans, stored, raw, parsed>>

\* Line 171, condition false: the loop ends, lines 205-208.
LoopExit ==
    /\ pc = "loop"
    /\ ~LoopCond(current_url, pages_scraped, max_pages)
    /\ pc' = "done"
    /\ stop' = "while"
    /\ UNCHANGED <<doi, max_pages, collected_reactions, current_url,
                   pages_scraped, seen_urls, html, calls, plans, stored, raw, parsed>>

\* Lines 172-174
CycleStop ==
    /\ pc = "loop"
    /\ LoopCond(current_url, pages_scraped, max_pages)
    /\ AlreadyVisited(current_url, seen_urls)
    /\ pc' = "done"
    /\ stop' = "cycle"
    /\ UNCHANGED <<doi, max_pages, collected_reactions, current_url,
                   pages_scraped, seen_urls, html, calls, plans, stored, raw, parsed>>

\* Lines 176-182: seen_urls.add, _fetch_page, break on a falsy result.
Fetch ==
    /\ pc = "loop"
    /\ LoopCond(current_url, pages_scraped, max_pages)
    /\ ~AlreadyVisited(current_url, seen_urls)
    /\ seen_urls' = seen_urls \cup {current_url}
    /\ \E h \in FetchResults :
        /\ html' = h
        /\ pc' = AfterFetch(h)
        /\ stop' = IF AfterFetch(h) = "done" THEN "fetch" ELSE stop
    /\ calls' = Append(calls, [op |-> "get", url |-> current_url])
    /\ UNCHANGED <<doi, max_pages, collected_reactions, current_url,
                   pages_scraped, plans, stored, raw, parsed>>

\* Lines 184-195: _process_page, then the deduplicating append.
ProcessStore ==
    /\ pc = "process"
    /\ \E reactions \in Orderings(_process_page(html, current_url)) :
        LET updated == AppendNew(collected_reactions, reactions)
        IN  /\ collected_reactions' = updated
            /\ stored' = Append(stored,
                                [url        |-> current_url,
                                 all_smiles |-> AllSmiles(html),
                                 found      |-> Len(reactions),
                                 new_count  |-> Len(updated) - Len(collected_reactions)])
    /\ pc' = "plan"
    /\ UNCHANGED <<doi, max_pages, current_url, pages_scraped, seen_urls,
                   html, stop, calls, plans, raw, parsed>>

\* Lines 197-201: _find_next_page_url, pages_scraped += 1, "if current_url".
Plan ==
    /\ pc = "plan"
    /\ LET next_url == _find_next_page_url(html, current_url)
       IN  /\ current_url' = next_url
           /\ plans' = Append(plans, [soup |-> html, current |-> current_url,
                                      result |-> next_url])
           /\ pc' = IF Truthy(next_url) THEN "sleep" ELSE "loop"
    /\ pages_scraped' = pages_scraped + 1
    /\ UNCHANGED <<doi, max_pages, collected_reactions, seen_urls, html,
                   stop, calls, stored, raw, parsed>>

\* Lines 202-203: time.sleep(random.uniform(*delay_range))
Sleep ==
    /\ pc = "sleep"
    /\ calls' = Append(calls, [op |-> "sleep", url |-> <<>>])
    /\ pc' = "loop"
    /\ UNCHANGED <<doi, max_pages, collected_reactions, current_url,
                   pages_scraped, seen_urls, html, stop, plans, stored, raw, parsed>>

Next ==
    \/ Begin
    \/ LoopExit
    \/ CycleStop
    \/ Fetch
    \/ ProcessStore
    \/ Plan
    \/ Sleep

Spec == Init /\ [][Next]_vars

(***************************************************************************)
(* Properties of scrape.                                                   *)
(***************************************************************************)
\* The session.get calls made so far, in order.
Gets == SelectSeq(calls, LAMBDA c : c.op = "get")

\* C1: no two records of collected_reactions have the same reaction_smiles,
\* whatever pages were processed; a candidate whose raw string is already
\* stored is not appended.
C1_UniqueReactionSmiles ==
    \A i, j \in 1..Len(collected_reactions) :
        collected_reactions[i].reaction_smiles = collected_reactions[j].reaction_smiles
            => i = j

\* A processed page offered a reaction that was stored already and it was
\* skipped.
C1_Witness ==
    \E k \in 1..Len(stored) :
        /\ stored[k].found > stored[k].new_count
        /\ Len(collected_reactions) > 0

\* Steps that scrape can still take at most: five per page that the page
\* limit leaves, plus the rank of the position inside the loop body.
Variant ==
    IF pc = "done" THEN 0
    ELSE 5 * (max_pages - pages_scraped)
            + (CASE pc = "start"   -> 5
                 [] pc = "sleep"   -> 5
                 [] pc = "loop"    -> 4
                 [] pc = "process" -> 3
                 [] pc = "plan"    -> 2)

\* C2: no URL is fetched twice in a run; when the planner has handed back a
\* URL that is already in seen_urls the loop stops at its next test without
\* a further call; and the loop cannot go on for ever, every step of scrape
\* lowering a non-negative variant.
C2_CycleGuard ==
    /\ [](\A i, j \in 1..Len(Gets) : Gets[i].url = Gets[j].url => i = j)
    /\ [][(pc = "loop" /\ current_url \in seen_urls)
            => (pc' = "done" /\ calls' = calls)]_vars
    /\ [][Variant' >= 0 /\ Variant' < Variant]_vars

\* The planner returned a visited URL and the cycle guard ended the run.
C2_Witness ==
    /\ pc = "done"
    /\ stop = "cycle"
    /\ current_url \in seen_urls
    /\ plans # <<>>
    /\ plans[Len(plans)].result = current_url

\* C3: the number of page fetches never exceeds max_pages, and a run with
\* max_pages = 1 ends with exactly one fetch.
C3_PageLimit ==
    /\ Len(Gets) <= max_pages
    /\ (pc = "done" /\ max_pages = 1) => Len(Gets) = 1

\* A run with max_pages = 1 ended after one fetch of a page whose anchor
\* named a further page.
C3_Witness ==
    /\ pc = "done"
    /\ max_pages = 1
    /\ Len(Gets) = 1
    /\ Len(plans) = 1
    /\ FirstNextLink(plans[1].soup.links) # None

\* C4: a failed fetch ends the run at once: the step that receives the
\* failure goes to the end of scrape, adds nothing to collected_reactions and
\* plans no further page, and nothing happens after the end, so the records
\* of the earlier pages are what scrape returns.
C4_FetchFailureStops ==
    [][/\ (calls' # calls /\ calls'[Len(calls')].op = "get" /\ Falsy(html'))
            => /\ pc' = "done"
               /\ collected_reactions' = collected_reactions
               /\ plans' = plans
       /\ (pc = "done") => UNCHANGED vars]_vars

\* A fetch failed after earlier pages had stored records.
C4_Witness ==
    /\ pc = "done"
    /\ stop = "fetch"
    /\ Falsy(html)
    /\ Len(Gets) > 1
    /\ Len(collected_reactions) > 0

\* C5: no pause is the last call of a run: every time.sleep is followed by
\* another fetch, whichever condition ends the run.
C5_NoPauseAfterFinalPage ==
    (pc = "done" /\ calls # <<>>) => calls[Len(calls)].op # "sleep"

\* C8: every stored record has a non-empty product_smiles, and every
\* candidate of a processed page that splits to a non-empty products field
\* is stored, whatever the other candidates of that page were.
C8_ProductsNonEmpty ==
    /\ \A i \in 1..Len(collected_reactions) :
            collected_reactions[i].product_smiles # <<>>
    /\ \A k \in 1..Len(stored) : \A s \in stored[k].all_smiles :
            (/\ _parse_smiles_string(s) # NoneDict
             /\ _parse_smiles_string(s).products # <<>>)
                => \E i \in 1..Len(collected_reactions) :
                        collected_reactions[i].reaction_smiles = s

\* One page held a candidate that does not split, one that splits to an
\* empty products field and one that was stored.
C8_Witness ==
    \E k \in 1..Len(stored) :
        /\ \E s \in stored[k].all_smiles : _parse_smiles_string(s) = NoneDict
        /\ \E s \in stored[k].all_smiles :
                /\ _parse_smiles_string(s) # NoneDict
                /\ _parse_smiles_string(s).products = <<>>
        /\ \E s \in stored[k].all_smiles : \E i \in 1..Len(collected_reactions) :
                /\ collected_reactions[i].reaction_smiles = s
                /\ collected_reactions[i].source_url = stored[k].url

\* No anchor of the document has a text matching a next-page indicator.
NoNextAnchor(soup) ==
    \A i \in 1..Len(soup.links) : ~IsNextText(soup.links[i].text)

\* The text of the scraper's own URLs up to the offset.
TemplatePrefix ==
    BASE_URL \o <<"/", "d", "a", "t", "a", "/", "r", "e", "a", "c", "t", "i", "o", "n", "/", "d", "o", "i", "/">> \o doi \o <<"/", "s", "t", "a", "r", "t", "/">>

\* url with the digits of its leftmost /start/N segment replaced by n.
WithOffset(url, n) ==
    LET m == SearchStart(url, 1)
        i == CHOOSE k \in 1..Len(url) :
                /\ SubSeq(url, k, k + 6) = <<"/", "s", "t", "a", "r", "t", "/">>
                /\ SubSeq(url, k + 7, k + 6 + Len(m)) = m
                /\ \A l \in 1..(k - 1) :
                        ~(/\ SubSeq(url, l, l + 6) = <<"/", "s", "t", "a", "r", "t", "/">>
                          /\ l + 7 <= Len(url)
                          /\ IsDigit(url[l + 7]))
    IN  SubSeq(url, 1, i + 6) \o Str(n) \o SubSeq(url, i + 7 + Len(m), Len(url))

\* C9 as stated: without a matching anchor the planner returns the current
\* URL with its offset N replaced by N + 10 (same host, path and DOI), and
\* nothing when the current URL has no /start/N segment.
C9_SameUrlNextOffset ==
    \A k \in 1..Len(plans) :
        NoNextAnchor(plans[k].soup) =>
            LET m == SearchStart(plans[k].current, 1)
            IN  IF m # None
                THEN plans[k].result = WithOffset(plans[k].current, ParseInt(m) + 10)
                ELSE plans[k].result = None

\* C9 amended: without a matching anchor the planner returns the scraper's
\* own template (BASE_URL, /data/reaction/doi/, self.doi, /start/) followed
\* by N + 10, N being the number of the leftmost /start/N of the current
\* URL, and nothing when the current URL has no such segment.
C9_OwnTemplateNextOffset ==
    \A k \in 1..Len(plans) :
        NoNextAnchor(plans[k].soup) =>
            LET m == SearchStart(plans[k].current, 1)
                r == plans[k].result
            IN  IF m # None
                THEN /\ StartsWith(r, TemplatePrefix)
                     /\ SubSeq(r, Len(TemplatePrefix) + 1, Len(r)) = Str(ParseInt(m) + 10)
                ELSE r = None

\* The fallback ran on a current URL that an anchor had supplied and that
\* is not one of the scraper's own, and on one without any offset.
C9_Witness ==
    /\ \E k \in 1..Len(plans) :
            /\ NoNextAnchor(plans[k].soup)
            /\ SearchStart(plans[k].current, 1) # None
            /\ ~StartsWith(plans[k].current, TemplatePrefix)
            /\ plans[k].result # None
    /\ \E k \in 1..Len(plans) :
            /\ NoNextAnchor(plans[k].soup)
            /\ SearchStart(plans[k].current, 1) = None
            /\ plans[k].result = None

\* Every document fetched so far is free of anchors matching a next-page
\* indicator.
NoAnchorRun ==
    /\ \A k \in 1..Len(plans) : NoNextAnchor(plans[k].soup)
    /\ NoNextAnchor(html)

\* C10: in a run whose pages have no matching anchor the planner never
\* returns nothing, the i-th fetched URL is the DOI template with offset
\* 10 * (i - 1), and the run ends only at the page limit or on a failed
\* fetch.
C10_OffsetsOfTen ==
    NoAnchorRun =>
        /\ \A i \in 1..Len(Gets) : Gets[i].url = TemplatePrefix \o Str(10 * (i - 1))
        /\ \A k \in 1..Len(plans) : plans[k].result # None
        /\ (pc = "done") =>
                \/ stop = "fetch"
                \/ stop = "while" /\ Truthy(current_url) /\ pages_scraped >= max_pages

(***************************************************************************)
(* Splitter runs: one raw string, one call of _parse_smiles_string.        *)
(***************************************************************************)
Alphabet == {"C", "O", ".", ">", " "}

RawStrings == UNION {[1..n -> Alphabet] : n \in 0..MaxLen}

ParseInit ==
    /\ raw \in RawStrings
    /\ parsed = Unset
    /\ doi = <<>>
    /\ max_pages = 0
    /\ collected_reactions = <<>>
    /\ current_url = None
    /\ pages_scraped = 0
    /\ seen_urls = {}
    /\ html = NoneHtml
    /\ pc = "splitter"
    /\ stop = ""
    /\ calls = <<>>
    /\ plans = <<>>
    /\ stored = <<>>

Parse ==
    /\ pc = "splitter"
    /\ parsed = Unset
    /\ parsed' = _parse_smiles_string(raw)
    /\ UNCHANGED <<raw, scrapeVars>>

ParseNext == Parse

ParseSpec == ParseInit /\ [][ParseNext]_vars

\* Number of non-overlapping occurrences of sub in s (str.count).
Count(s, sub) == Len(Split(s, sub)) - 1

\* Position of the k-th ">" of s (k >= 1), or 0.
RECURSIVE NthArrow(_, _, _)
NthArrow(s, k, from) ==
    LET i == FindFrom(s, <<">">>, from)
    IN  IF i = 0 THEN 0
        ELSE IF k = 1 THEN i
        ELSE NthArrow(s, k - 1, i + 1)

\* C6: for every raw string with exactly one occurrence of ">>" (other single
\* ">" allowed), the splitter returns reagents = [], reactants = the
\* components of the text before ">>" and products = the components of the
\* text after ">>".
C6_DoubleArrowTwoFields ==
    (parsed # Unset /\ Count(raw, <<">", ">">>) = 1) =>
        LET i == FindFrom(raw, <<">", ">">>, 1)
        IN  /\ parsed # NoneDict
            /\ parsed.reagents = <<>>
            /\ parsed.reactants = Components(SubSeq(raw, 1, i - 1))
            /\ parsed.products = Components(SubSeq(raw, i + 2, Len(raw)))

\* C7: for every raw string with no ">>" and more than two ">", the splitter
\* splits at the first two ">" only: reactants before the first, reagents
\* between the first and the second, products from all of the text after the
\* second.
C7_ExcessBelongsToProducts ==
    (parsed # Unset /\ ~Contains(raw, <<">", ">">>) /\ Count(raw, <<">">>) > 2) =>
        LET i == NthArrow(raw, 1, 1)
            j == NthArrow(raw, 2, 1)
        IN  /\ parsed # NoneDict
            /\ parsed.reactants = Components(SubSeq(raw, 1, i - 1))
            /\ parsed.reagents = Components(SubSeq(raw, i + 1, j - 1))
            /\ parsed.products = Components(SubSeq(raw, j + 1, Len(raw)))

====
